---- MODULE Spec2Model ----
(***************************************************************************)
(* Model of lib/index.js of node-unificontroller: the request executor     *)
(* (_apiRequest), the authentication routine (_authenticate) and the       *)
(* websocket listener (startWebsocketListener).                            *)
(*                                                                         *)
(* Node runs every promise callback of one I/O completion to the end       *)
(* before the next I/O completion is delivered, so one action is one       *)
(* network completion together with the whole callback chain it sets off,  *)
(* up to the next request that is put on the wire.                         *)
(***************************************************************************)
EXTENDS Integers, Sequences, FiniteSets

\* Bounds of the model.
MaxCalls == 2        \* top-level calls (of _apiRequest or startWebsocketListener)
MaxLogins == 3       \* POST /login requests put on the wire
MaxListeners == 1    \* sockets of the listener's specification
MaxItems == 2        \* elements of the data array of a pushed frame

VARIABLES
  session,                   \* this._session
  csrfToken,                 \* this._csrfToken
  authenticationInProgress,  \* this._authenticationInProgress
  calls,                     \* the top-level calls and their pending promise chains
  nLogins,                   \* POST /login requests sent so far
  dropped,                   \* history: the sockets that discarded a non-JSON frame
  step                       \* history: the step just taken

vars == <<session, csrfToken, authenticationInProgress, calls, nLogins, dropped, step>>

Calls == 1..MaxCalls
Listeners == 1..MaxListeners

\* null / undefined token
None == "null"

----------------------------------------------------------------------------
\* Values of the environment: caller arguments, errors, responses.

\* The calls callers make: _apiRequest() with everything defaulted, and a
\* POST with a body as getClients makes it (line 218).  "" stands for an
\* omitted option (undefined) or the default body ''.
Requests ==
  { [method |-> "", path |-> "", body |-> ""],
    [method |-> "POST", path |-> "/stat/sites", body |-> "{macs}"] }

LoginBody == "{username,password,remember}"

NoError ==
  [code |-> "", hasResponse |-> FALSE, status |-> 0, message |-> ""]
SelfSignedError ==
  [code |-> "DEPTH_ZERO_SELF_SIGNED_CERT", hasResponse |-> FALSE, status |-> 0,
   message |-> "self signed certificate"]
TransportError ==
  [code |-> "ECONNREFUSED", hasResponse |-> FALSE, status |-> 0,
   message |-> "connect ECONNREFUSED"]
Http401 ==
  [code |-> "ERR_BAD_REQUEST", hasResponse |-> TRUE, status |-> 401,
   message |-> "Request failed with status code 401"]
Http500 ==
  [code |-> "ERR_BAD_RESPONSE", hasResponse |-> TRUE, status |-> 500,
   message |-> "Request failed with status code 500"]

\* What axios can reject with.
AxiosErrors == {SelfSignedError, TransportError, Http401, Http500}

\* new Error('Self signed certificate')
CertificateError ==
  [code |-> "", hasResponse |-> FALSE, status |-> 0,
   message |-> "Self signed certificate"]

\* Token values the controller hands out (opaque strings).
Tokens == {"t1", "t2"}

\* One attribute of a cookie after cookie.split(';'): attributes after the
\* first keep their leading blank.
Attr(n, v) == [name |-> n, value |-> v]

\* The set-cookie header of a response: absent, or an array of cookies, each
\* an array of attributes once split.
NoSetCookie == [present |-> FALSE, cookies |-> <<>>]
SetCookie(cs) == [present |-> TRUE, cookies |-> cs]

SesCookie(t) == <<Attr("unifises", t), Attr(" Path", "/"), Attr(" HttpOnly", "")>>
CsrfCookie(t) == <<Attr("csrf_token", t), Attr(" Path", "/")>>

\* 2xx answers of the controller to a login: some deployments omit one of
\* the two cookies or both.
LoginResponses ==
  {NoSetCookie}
  \cup {SetCookie(<<SesCookie(t)>>) : t \in Tokens}
  \cup {SetCookie(<<CsrfCookie(t)>>) : t \in Tokens}
  \cup {SetCookie(<<SesCookie(t), CsrfCookie(u)>>) : t \in Tokens, u \in Tokens}

\* 2xx answer to any other request.
PlainResponses == {NoSetCookie}

----------------------------------------------------------------------------
\* _apiRequest and _authenticate

\* Lines 47-55: the credential headers.
BuildHeadersAlways(ses, csrf) ==
  [auth |-> TRUE, cookie |-> ses, csrf |-> csrf]

BuildHeaders(ses, csrf) ==
  IF ses # None
    THEN [auth |-> TRUE, cookie |-> ses, csrf |-> csrf]
    ELSE [auth |-> FALSE, cookie |-> None, csrf |-> None]

NoHeaders == [auth |-> FALSE, cookie |-> None, csrf |-> None]

\* Lines 60-63: what goes on the wire for (options, body).
WireRequest(options, body) ==
  [method |-> IF options.method = "" THEN "GET" ELSE options.method,
   url |-> IF options.path = "" THEN "/" ELSE options.path,
   data |-> body]

NoWire == [method |-> "", url |-> "", data |-> ""]

IsLoginUrl(url) == url = "/login"

\* No request was put on the wire.
NothingSent == [any |-> FALSE, role |-> "", wire |-> NoWire, headers |-> NoHeaders]

\* Lines 43-69: one invocation of _apiRequest puts one request on the wire.
\* The invocation is pushed on the call's chain; role says who waits for it:
\* "top" the caller, "login" an _authenticate, "retry" the invocation below.
ApiRequestSend(m, role, options, body) ==
  LET wire == WireRequest(options, body)
      inv == [role |-> role,
              options |-> [method |-> wire.method, path |-> options.path],
              body |-> body,
              wire |-> wire,
              phase |-> "sent"]
  IN [m EXCEPT !.nLogins = IF IsLoginUrl(wire.url) THEN @ + 1 ELSE @,
               !.call.stack = Append(@, inv),
               !.sent = [any |-> TRUE, role |-> role, wire |-> wire,
                         headers |-> BuildHeaders(m.session, m.csrfToken)]]

\* Line 116: the request _authenticate makes.
LoginOptions == [method |-> "POST", path |-> "/login"]

\* Lines 108-120: _authenticate up to the login request being sent.
Authenticate(m) ==
  ApiRequestSend([m EXCEPT !.flag = TRUE, !.auth = TRUE],
                 "login", LoginOptions, LoginBody)

\* Lines 127-138: one attribute of one cookie.
StoreAttr(cred, attr) ==
  CASE attr.name = "unifises" -> [cred EXCEPT !.session = attr.value]
    [] attr.name = "csrf_token" -> [cred EXCEPT !.csrfToken = attr.value]
    [] OTHER -> cred

RECURSIVE StoreAttrs(_, _)
\* Lines 126-139: attrs.forEach
StoreAttrs(cred, attrs) ==
  IF attrs = <<>> THEN cred
  ELSE StoreAttrs(StoreAttr(cred, Head(attrs)), Tail(attrs))

RECURSIVE StoreCookies(_, _)
\* Lines 125-140: response.headers['set-cookie'].forEach
StoreCookies(cred, cookies) ==
  IF cookies = <<>> THEN cred
  ELSE StoreCookies(StoreAttrs(cred, Head(cookies)), Tail(cookies))

StoreCredentialsIgnored(cred, setCookie) == cred

\* Lines 124-141: the credentials after a login response.
StoreCredentials(cred, setCookie) ==
  IF setCookie.present THEN StoreCookies(cred, setCookie.cookies) ELSE cred

\* No socket was created.
NoSocket == [any |-> FALSE, cookie |-> None]

\* Lines 434-439: new WebSocketClient(..., Cookie: unifises=<session>)
NewSocket(m) ==
  [m EXCEPT !.call.sock = "connecting",
            !.socket = [any |-> TRUE, cookie |-> m.session]]

\* Line 91: the request that is issued again.
ReissueWithoutBody(inv) == [options |-> inv.options, body |-> ""]

Reissue(inv) == [options |-> inv.options, body |-> inv.body]

\* Line 78: error.code === 'DEPTH_ZERO_SELF_SIGNED_CERT'
IsSelfSignedNever(error) == FALSE

IsSelfSigned(error) == error.code = "DEPTH_ZERO_SELF_SIGNED_CERT"

\* Line 80: what a self-signed certificate is rejected with.
SelfSignedRejectionGeneric(error) == error

SelfSignedRejection(error) == CertificateError

\* Line 84, first operand: self._authenticationInProgress
InProgressNever(m) == FALSE

InProgress(m) == m.flag

\* Line 84, second operand: error.response.status === 401
Is401(error) == error.status = 401

Top(m) == m.call.stack[Len(m.call.stack)]

Pop(m) == [m EXCEPT !.call.stack = SubSeq(@, 1, Len(@) - 1)]

\* The topmost invocation has its answer and now waits in phase.
Waiting(m, phase) ==
  [m EXCEPT !.call.stack[Len(m.call.stack)].phase = phase]

RECURSIVE Resolved(_, _), Rejected(_, _)

\* The promise of the topmost invocation resolves with response: lines 72-75,
\* and then the callbacks waiting for it.
Resolved(m, response) ==
  LET inv == Top(m)
      m1 == Pop(m)
  IN CASE inv.role = "top" ->
            \* the caller's promise
            [m1 EXCEPT !.call.status = "resolved", !.result = NoError]
       [] inv.role = "retry" ->
            \* lines 92-94
            Resolved(m1, response)
       [] inv.role = "login" ->
            \* lines 121-144, then the code after `await self._authenticate()`
            LET cred == StoreCredentials(
                          [session |-> m1.session, csrfToken |-> m1.csrfToken],
                          response)
                m2 == [m1 EXCEPT !.flag = FALSE,
                                 !.session = cred.session,
                                 !.csrfToken = cred.csrfToken]
            IN IF m2.call.stack = <<>>
                 THEN \* startWebsocketListener, lines 434-439
                      NewSocket(m2)
                 ELSE \* _apiRequest, line 91
                      LET again == Reissue(Top(m2))
                      IN ApiRequestSend(Waiting(m2, "retry"), "retry",
                                        again.options, again.body)

\* The promise of the topmost invocation rejects with error, and then the
\* callbacks waiting for it.
Rejected(m, error) ==
  LET inv == Top(m)
      m1 == Pop(m)
  IN CASE inv.role = "top" ->
            [m1 EXCEPT !.call.status = "rejected", !.result = error]
       [] inv.role = "retry" ->
            \* lines 95-97
            Rejected(m1, error)
       [] inv.role = "login" ->
            \* lines 145-151, then the catch around `await self._authenticate()`
            LET m2 == [m1 EXCEPT !.flag = FALSE]
            IN IF m2.call.stack = <<>>
                 THEN \* startWebsocketListener, lines 429-431
                      [m2 EXCEPT !.call.status = "rejected", !.result = error]
                 ELSE \* _apiRequest, lines 87-89
                      Rejected(m2, error)

\* Lines 77-101: the catch handler of the topmost invocation.
ApiRequestCatch(m, error) ==
  IF IsSelfSigned(error)
    THEN Rejected(m, SelfSignedRejection(error))
  ELSE IF ~InProgress(m)
    THEN IF ~error.hasResponse
           THEN \* error.response is undefined: reading .status throws inside
                \* the async handler, and neither resolve nor reject is called
                Waiting(m, "threw")
         ELSE IF Is401(error)
           THEN Authenticate(Waiting(m, "auth"))
         ELSE Rejected(m, error)
  ELSE Rejected(m, error)

----------------------------------------------------------------------------
\* The message handler of startWebsocketListener

\* Names an element's key or meta.message can take.
Keys == {"EVT_WU_Connected", "events"}
Messages == {"events", "device.sync"}

\* An element of data / an object: null, or an object with or without `key`.
NullElem == [isNull |-> TRUE, hasKey |-> FALSE, key |-> "", mac |-> ""]
KeyedElem(k) == [isNull |-> FALSE, hasKey |-> TRUE, key |-> k, mac |-> "AA:BB"]
PlainElem == [isNull |-> FALSE, hasKey |-> FALSE, key |-> "", mac |-> "AA:BB"]

Objects == {KeyedElem(k) : k \in Keys} \cup {PlainElem}
Elems == {KeyedElem(k) : k \in Keys} \cup {NullElem}

\* The `data` member: absent, an object, or an array.
AbsentData == [kind |-> "absent", items |-> <<>>, obj |-> NullElem]
ObjectData(o) == [kind |-> "object", items |-> <<>>, obj |-> o]
ArrayData(a) == [kind |-> "array", items |-> a, obj |-> NullElem]

Arrays == UNION {[1..n -> Elems] : n \in 0..MaxItems}
Datas == {AbsentData} \cup {ObjectData(o) : o \in Objects}
           \cup {ArrayData(a) : a \in Arrays}

\* A JSON value as the handler looks at it: null, or an object whose `meta`
\* is absent, null or an object with or without `message`.
JsonNull ==
  [isNull |-> TRUE, meta |-> "absent", hasMessage |-> FALSE, message |-> "",
   data |-> AbsentData]
JsonObject(meta, hasMessage, message, data) ==
  [isNull |-> FALSE, meta |-> meta, hasMessage |-> hasMessage,
   message |-> message, data |-> data]

JsonValues ==
  {JsonNull}
  \cup {JsonObject(mt, FALSE, "", d) :
          mt \in {"absent", "null", "object"},
          d \in {AbsentData, ObjectData(PlainElem), ArrayData(<<PlainElem>>)}}
  \cup {JsonObject("object", TRUE, ms, d) : ms \in Messages, d \in Datas}

\* A frame: text that JSON.parse rejects, or the text of a JSON value.
NotJson == [json |-> FALSE, value |-> JsonNull]
JsonText(v) == [json |-> TRUE, value |-> v]
Frames == {NotJson} \cup {JsonText(v) : v \in JsonValues}

NoFrame == [json |-> FALSE, value |-> JsonObject("none", FALSE, "", AbsentData)]

Event(name, payload) == [name |-> name, payload |-> payload]

Outcome(emitted, threw) == [emitted |-> emitted, threw |-> threw]

\* Line 480: self.emit(event.key, event)
ElementEventByMessage(message, elem) ==
  Event(message, ObjectData(elem))

ElementEvent(message, elem) ==
  Event(IF elem.hasKey THEN elem.key ELSE "undefined", ObjectData(elem))

RECURSIVE EmitEach(_, _, _)
\* Lines 477-481: msg.data.forEach; reading .key of null throws.
EmitEach(message, items, emitted) ==
  IF items = <<>> THEN Outcome(emitted, FALSE)
  ELSE IF Head(items).isNull THEN Outcome(emitted, TRUE)
  ELSE EmitEach(message, Tail(items),
                Append(emitted, ElementEvent(message, Head(items))))

\* Line 487: self.emit(msg.meta.message, msg.data)
SyncEventNoPayload(msg) ==
  Event(IF msg.hasMessage THEN msg.message ELSE "undefined", AbsentData)

SyncEvent(msg) ==
  Event(IF msg.hasMessage THEN msg.message ELSE "undefined", msg.data)

\* Lines 449-454: non-JSON text is logged and dropped.
ParseFailureThrows(frame) == Outcome(<<>>, TRUE)

ParseFailure(frame) == Outcome(<<>>, FALSE)

\* Lines 446-489: the 'message' handler: the events it emits and whether an
\* exception leaves it.
OnMessage(frame) ==
  IF ~frame.json THEN ParseFailure(frame)
  ELSE LET msg == frame.value IN
    IF msg.isNull \/ msg.meta # "object"
      THEN \* line 456: msg.meta.message of null or undefined
           Outcome(<<>>, TRUE)
    ELSE IF msg.hasMessage /\ msg.message = "events"
      THEN IF msg.data.kind = "array"
             THEN EmitEach(msg.message, msg.data.items, <<>>)
             ELSE \* msg.data.forEach is not a function
                  Outcome(<<>>, TRUE)
    ELSE Outcome(<<SyncEvent(msg)>>, FALSE)

----------------------------------------------------------------------------
\* State machine

NewCall ==
  [kind |-> "none", status |-> "none", stack |-> <<>>, sock |-> "none"]

NoOutcome == Outcome(<<>>, FALSE)

\* History of a step that runs none of the client's code on a request.
Idle ==
  [op |-> "idle", call |-> 1, error |-> NoError, login |-> FALSE,
   flag |-> FALSE, result |-> NoError, auth |-> FALSE, sent |-> NothingSent,
   socket |-> NoSocket, response |-> NoSetCookie,
   frame |-> NoFrame, emitted |-> <<>>, threw |-> FALSE]

\* History of a step of call c that ran _apiRequest code: what axios
\* delivered (error, to a login request or not), the flag before the step, what
\* the call's promise settled with if it did, whether an _authenticate was
\* started, the request that was put on the wire and the socket that was
\* created.  A 2xx step also keeps the set-cookie header of the response.
Ran(op, c, error, login, m) ==
  [Idle EXCEPT !.op = op, !.call = c, !.error = error, !.login = login,
               !.flag = authenticationInProgress,
               !.result = m.result, !.auth = m.auth, !.sent = m.sent,
               !.socket = m.socket]

\* History of a frame handled on the socket of call c.
Handled(c, frame, out) ==
  [Idle EXCEPT !.op = "SocketMessage", !.call = c, !.frame = frame,
               !.emitted = out.emitted, !.threw = out.threw]

\* Lines 20-34; _authenticationInProgress is undefined, which is falsy.
Init ==
  /\ session = None
  /\ csrfToken = None
  /\ authenticationInProgress = FALSE
  /\ calls = [c \in Calls |-> NewCall]
  /\ nLogins = 0
  /\ dropped = {}
  /\ step = Idle

\* The client's state as the callbacks of call c see it, with what the step
\* has done so far: result is what the call's promise settles with.
Micro(c) ==
  [session |-> session, csrfToken |-> csrfToken,
   flag |-> authenticationInProgress, nLogins |-> nLogins, call |-> calls[c],
   result |-> NoError, auth |-> FALSE, sent |-> NothingSent,
   socket |-> NoSocket]

Commit(c, m) ==
  /\ m.nLogins <= MaxLogins
  /\ session' = m.session
  /\ csrfToken' = m.csrfToken
  /\ authenticationInProgress' = m.flag
  /\ nLogins' = m.nLogins
  /\ calls' = [calls EXCEPT ![c] = m.call]

\* Calls take the slots in order.
IsNext(c) ==
  /\ calls[c].kind = "none"
  /\ \A d \in Calls : d < c => calls[d].kind # "none"

InFlight(c) ==
  /\ calls[c].status = "pending"
  /\ calls[c].stack # <<>>
  /\ calls[c].stack[Len(calls[c].stack)].phase = "sent"

\* A caller calls _apiRequest(options, body).
ApiRequest(c, method, path, body) ==
  /\ IsNext(c)
  /\ LET m == ApiRequestSend(
                [Micro(c) EXCEPT !.call.kind = "api", !.call.status = "pending"],
                "top", [method |-> method, path |-> path], body)
     IN /\ Commit(c, m)
        /\ step' = Ran("ApiRequest", c, NoError, FALSE, m)
  /\ UNCHANGED dropped

\* Lines 420-439: a caller calls startWebsocketListener().
StartWebsocketListener(c) ==
  /\ IsNext(c)
  /\ LET m0 == [Micro(c) EXCEPT !.call.kind = "ws", !.call.status = "pending"]
         m == IF m0.session = None THEN Authenticate(m0) ELSE NewSocket(m0)
     IN /\ Commit(c, m)
        /\ step' = Ran("StartWebsocketListener", c, NoError, FALSE, m)
  /\ UNCHANGED dropped

\* axios resolves: the request in flight of call c gets a 2xx response.
RequestSucceeds(c) ==
  /\ InFlight(c)
  /\ LET login == IsLoginUrl(Top(Micro(c)).wire.url) IN
     \E response \in (IF login THEN LoginResponses ELSE PlainResponses) :
       LET m == Resolved(Micro(c), response) IN
       /\ Commit(c, m)
       /\ step' = [Ran("RequestSucceeds", c, NoError, login, m)
                     EXCEPT !.response = response]
  /\ UNCHANGED dropped

\* axios rejects: the request in flight of call c fails with error.
RequestFails(c, error) ==
  /\ InFlight(c)
  /\ LET m == ApiRequestCatch(Micro(c), error) IN
       /\ Commit(c, m)
       /\ step' = Ran("RequestFails", c, error,
                      IsLoginUrl(Top(Micro(c)).wire.url), m)
  /\ UNCHANGED dropped

\* Lines 441-444: the socket of call c opens.
SocketOpen(c) ==
  /\ calls[c].sock = "connecting"
  /\ calls' = [calls EXCEPT ![c].sock = "open", ![c].status = "resolved"]
  /\ step' = Idle
  /\ UNCHANGED <<session, csrfToken, authenticationInProgress, nLogins, dropped>>

\* Lines 495-497: the socket of call c reports an error; it is logged.
SocketError(c) ==
  /\ calls[c].sock \in {"connecting", "open"}
  /\ calls' = [calls EXCEPT ![c].sock = "errored"]
  /\ step' = Idle
  /\ UNCHANGED <<session, csrfToken, authenticationInProgress, nLogins, dropped>>

\* Lines 491-493: the socket of call c closes; it is logged.
SocketClose(c) ==
  /\ calls[c].sock \in {"connecting", "open", "errored"}
  /\ calls' = [calls EXCEPT ![c].sock = "closed"]
  /\ step' = Idle
  /\ UNCHANGED <<session, csrfToken, authenticationInProgress, nLogins, dropped>>

\* Lines 446-489: a frame arrives on the open socket of call c.
SocketMessage(c, frame) ==
  /\ calls[c].sock = "open"
  /\ LET out == OnMessage(frame) IN
       /\ step' = Handled(c, frame, out)
       /\ dropped' = IF frame.json THEN dropped ELSE dropped \cup {c}
  /\ UNCHANGED <<session, csrfToken, authenticationInProgress, nLogins, calls>>

Next ==
  \/ \E c \in Calls, r \in Requests : ApiRequest(c, r.method, r.path, r.body)
  \/ \E c \in Calls : StartWebsocketListener(c)
  \/ \E c \in Calls : RequestSucceeds(c)
  \/ \E c \in Calls, error \in AxiosErrors : RequestFails(c, error)

\* The request executor and the authentication routine, with the listeners
\* that start them.  The socket handlers read and write nothing of what these
\* steps read (session, tokens, flag, pending chains), so they are left to
\* SpecSockets.
Spec == Init /\ [][Next]_vars

NextSockets ==
  \/ \E c \in Calls, r \in Requests : ApiRequest(c, r.method, r.path, r.body)
  \/ \E c \in Calls : StartWebsocketListener(c)
  \/ \E c \in Calls : RequestSucceeds(c)
  \/ \E c \in Calls, error \in AxiosErrors : RequestFails(c, error)
  \/ \E c \in Calls : SocketOpen(c)
  \/ \E c \in Calls : SocketError(c)
  \/ \E c \in Calls : SocketClose(c)

\* The same with the life of the sockets: they open, report errors and close.
SpecSockets == Init /\ [][NextSockets]_vars

NextListener ==
  \/ \E c \in Listeners : StartWebsocketListener(c)
  \/ \E c \in Listeners : RequestSucceeds(c)
  \/ \E c \in Listeners : SocketOpen(c)
  \/ \E c \in Listeners : SocketClose(c)
  \/ \E c \in Listeners, frame \in Frames : SocketMessage(c, frame)

\* The listener: sockets are started, open, receive frames and close.
SpecListener == Init /\ [][NextListener]_vars

----------------------------------------------------------------------------
\* Properties

\* The chain of a pending call: every invocation of _apiRequest made for it
\* that has not settled yet.  An invocation that was answered 401 and started
\* an _authenticate stays in the chain in phase "auth", and in phase "retry"
\* once it has issued the request again.
Chain(c) == calls[c].stack

\* The number of times the pending call c has put its own request on the wire.
TimesSent(c) ==
  Cardinality({i \in DOMAIN Chain(c) : ~IsLoginUrl(Chain(c)[i].wire.url)})

\* The number of _authenticate calls the pending call c has made.
TimesAuthenticated(c) ==
  Cardinality({i \in DOMAIN Chain(c) : Chain(c)[i].phase \in {"auth", "retry"}})

\* The calls whose _authenticate has its login request outstanding.
LoginsOutstanding ==
  {c \in Calls : InFlight(c) /\ Chain(c)[Len(Chain(c))].role = "login"}

\* C1: a top-level _apiRequest call sends its request at most twice and
\* authenticates at most once, whatever the server answers.
C1_AtMostOneReissue ==
  \A c \in Calls :
    calls[c].kind = "api" => TimesSent(c) <= 2 /\ TimesAuthenticated(c) <= 1

\* C2: at every instant at most one login request issued by _authenticate is
\* outstanding.
C2_AtMostOneLoginOutstanding == Cardinality(LoginsOutstanding) <= 1

\* C3: a request issued again after re-authentication has the method, url and
\* body of the request of the invocation that issues it again.
C3_ReissueIsIdentical ==
  \A c \in Calls : \A i \in DOMAIN Chain(c) :
    Chain(c)[i].role = "retry" =>
      /\ i > 1
      /\ Chain(c)[i].wire = Chain(c)[i - 1].wire

\* C3 witness: a POST with a body has been issued again and is in flight.
C3_Witness ==
  \E c \in Calls :
    /\ InFlight(c)
    /\ Chain(c)[Len(Chain(c))].role = "retry"
    /\ Chain(c)[Len(Chain(c))].wire =
         [method |-> "POST", url |-> "/stat/sites", data |-> "{macs}"]

\* The step just taken delivered error to a request of call step.call.
Failed(error) == step.op = "RequestFails" /\ step.error = error

\* C4: a request that fails with a self-signed-certificate error rejects the
\* call with Error('Self signed certificate'), starts no authentication and
\* sends nothing, whatever the flag.
C4_SelfSignedIsCertificateError ==
  Failed(SelfSignedError) =>
    /\ calls[step.call].status = "rejected"
    /\ step.result = CertificateError
    /\ step.result # SelfSignedError
    /\ ~step.auth
    /\ ~step.sent.any

\* C4 witness: a request other than a login failed with a self-signed
\* certificate while the flag was set.
C4_Witness ==
  /\ Failed(SelfSignedError)
  /\ step.flag
  /\ ~step.login
  /\ calls[step.call].status = "rejected"

\* C5: a request that fails with a non-401 status or without any response
\* rejects the call with that error, starts no authentication and sends
\* nothing, with the flag set or clear.
C5_OtherFailuresPropagate ==
  Failed(TransportError) \/ Failed(Http500) =>
    /\ calls[step.call].status = "rejected"
    /\ step.result = step.error
    /\ ~step.auth
    /\ ~step.sent.any

\* C6: a request put on the wire carries the stored session token and
\* anti-forgery token when a session token is stored, and no credential
\* headers when none is.  (The send is the last thing a step does, so the
\* tokens stored when it is sent are those stored after the step.)
C6_HeadersAreStoredCredentials ==
  step.sent.any =>
    IF session # None
      THEN /\ step.sent.headers.auth
           /\ step.sent.headers.cookie = session
           /\ step.sent.headers.csrf = csrfToken
      ELSE ~step.sent.headers.auth

\* C6 witness: a request is issued again right after a login stored both
\* tokens, and carries them.
C6_Witness ==
  /\ step.sent.any
  /\ step.sent.role = "retry"
  /\ session # None
  /\ csrfToken # None
  /\ step.sent.headers.cookie = session

\* The step just taken handled a frame.
Received == step.op = "SocketMessage"

\* C7: a frame that is not JSON emits nothing, throws nothing and leaves the
\* socket open.
C7_NonJsonIsDropped ==
  Received /\ ~step.frame.json =>
    /\ step.emitted = <<>>
    /\ ~step.threw
    /\ calls[step.call].sock = "open"

\* C7 witness: a frame is dispatched on a socket that dropped a non-JSON
\* frame before.
C7_Witness ==
  /\ Received
  /\ step.call \in dropped
  /\ step.emitted # <<>>

\* C8: a JSON frame without `meta` emits nothing and no exception leaves the
\* handler.
C8_MissingMetaIsDropped ==
  Received /\ step.frame.json /\ ~step.frame.value.isNull
      /\ step.frame.value.meta = "absent" =>
    /\ step.emitted = <<>>
    /\ ~step.threw

\* The step just taken handled a frame with meta.message "events" whose data
\* is a sequence.
ReceivedBatch ==
  /\ Received
  /\ step.frame.json
  /\ ~step.frame.value.isNull
  /\ step.frame.value.meta = "object"
  /\ step.frame.value.hasMessage
  /\ step.frame.value.message = "events"
  /\ step.frame.value.data.kind = "array"

Items == step.frame.value.data.items

\* The i-th event is named by the i-th element's key and carries the element.
IsElementEvent(i) ==
  /\ step.emitted[i].name = Items[i].key
  /\ step.emitted[i].payload = ObjectData(Items[i])

ReceivedSync ==
  /\ Received
  /\ step.frame.json
  /\ ~step.frame.value.isNull
  /\ step.frame.value.meta = "object"
  /\ step.frame.value.hasMessage
  /\ step.frame.value.message # "events"

\* C10: a decodable frame whose meta.message is not "events" emits exactly
\* one event, named meta.message, whose payload is the frame's data.
C10_SyncEmitsOne ==
  ReceivedSync =>
    /\ step.emitted =
         <<Event(step.frame.value.message, step.frame.value.data)>>
    /\ ~step.threw

\* C10 witness: a device.sync frame carrying an object was handled.
C10_Witness ==
  /\ ReceivedSync
  /\ step.frame.value.message = "device.sync"
  /\ step.frame.value.data.kind = "object"
  /\ Len(step.emitted) = 1

\* The sockets that are open: each has its own 'message' handler (line 446).
OpenSockets == {c \in Calls : calls[c].sock = "open"}

\* C11: a client holds at most one open push-channel connection at any time.
C11_AtMostOneOpenSocket == Cardinality(OpenSockets) <= 1

\* The _authenticate calls that have not completed: each is waited for by the
\* invocation of role "login" it made, which stays in the chain until it
\* settles.
AuthenticationsInProgress ==
  {<<c, i>> \in Calls \X (1..(MaxLogins + 1)) :
     i \in DOMAIN Chain(c) /\ Chain(c)[i].role = "login"}

\* C12: the flag is true if and only if an authentication attempt is in
\* progress.
C12_FlagIffAuthenticating ==
  authenticationInProgress <=> AuthenticationsInProgress # {}

\* C13: a 401 handled while the flag is set rejects the call with that 401
\* at once: no authentication is started, nothing is sent, and the call does
\* not stay pending behind the login in flight.
C13_401WhileAuthenticatingIsRejected ==
  Failed(Http401) /\ step.flag =>
    /\ calls[step.call].status = "rejected"
    /\ calls[step.call].stack = <<>>
    /\ step.result = Http401
    /\ ~step.auth
    /\ ~step.sent.any

\* C13 witness: a request other than a login was answered 401 while the
\* login of another call was outstanding, and that login still is.
C13_Witness ==
  /\ Failed(Http401)
  /\ step.flag
  /\ ~step.login
  /\ calls[step.call].status = "rejected"
  /\ LoginsOutstanding # {}

\* The step handled the failure of a login request.
LoginFailed == step.op = "RequestFails" /\ step.login

\* C14: whenever a login request fails, the call that triggered the
\* authentication is rejected with the login's error (the certificate error
\* for a self-signed certificate), the flag is false afterwards, and nothing
\* is sent again.
C14_LoginFailureRejectsTrigger ==
  LoginFailed =>
    /\ calls[step.call].status = "rejected"
    /\ step.result = (IF step.error = SelfSignedError THEN CertificateError
                      ELSE step.error)
    /\ ~authenticationInProgress
    /\ ~step.auth
    /\ ~step.sent.any

\* The step handled a 2xx answer to a login request.
LoginSucceeded == step.op = "RequestSucceeds" /\ step.login

\* The values of the attributes called name in a Set-Cookie header, in order.
Delivered(response, name) ==
  IF ~response.present THEN <<>>
  ELSE LET attrs == [i \in 1..Len(response.cookies) |->
                       SelectSeq(response.cookies[i],
                                 LAMBDA a : a.name = name)]
           values(as) == [j \in 1..Len(as) |-> as[j].value]
           RECURSIVE Flat(_)
           Flat(ss) == IF ss = <<>> THEN <<>>
                       ELSE values(Head(ss)) \o Flat(Tail(ss))
       IN Flat(attrs)

\* The token a login response delivers under name: the last one it carries,
\* absent when it carries none.
DeliveredToken(response, name) ==
  LET vs == Delivered(response, name)
  IN IF vs = <<>> THEN None ELSE vs[Len(vs)]

\* C15: after every successful login the stored session token and
\* anti-forgery token are the ones that login response delivered, absent when
\* it delivered none.
C15_CredentialsAreThoseDelivered ==
  LoginSucceeded =>
    /\ session = DeliveredToken(step.response, "unifises")
    /\ csrfToken = DeliveredToken(step.response, "csrf_token")

\* C16: a login request put on the wire carries neither the session cookie
\* header nor the anti-forgery header.
C16_LoginIsUnauthenticated ==
  step.sent.any /\ IsLoginUrl(step.sent.wire.url) => ~step.sent.headers.auth

\* The step re-issued a request after an authentication (line 91).
Reissued == step.sent.any /\ step.sent.role = "retry"

\* C17: a request is re-issued only in the step that handles the 2xx answer
\* to a login, and the credential headers it carries are the credentials
\* stored after that step: the tokens that login delivered, where it
\* delivered them.
C17_ReissueCarriesNewCredentials ==
  Reissued =>
    /\ LoginSucceeded
    /\ LET ses == DeliveredToken(step.response, "unifises")
           csrf == DeliveredToken(step.response, "csrf_token")
       IN /\ ses # None =>
               step.sent.headers.auth /\ step.sent.headers.cookie = ses
          /\ ses # None /\ csrf # None => step.sent.headers.csrf = csrf
          /\ step.sent.headers.auth =>
               /\ step.sent.headers.cookie = session
               /\ step.sent.headers.csrf = csrfToken

\* C17 witness: a request was re-issued with the session token its login
\* delivered while the login of another call was outstanding.
C17_Witness ==
  /\ Reissued
  /\ ~IsLoginUrl(step.sent.wire.url)
  /\ DeliveredToken(step.response, "unifises") # None
  /\ step.sent.headers.cookie = DeliveredToken(step.response, "unifises")
  /\ \E c \in Calls \ {step.call} : c \in LoginsOutstanding

\* C18: the push connection is created with a stored session token as its
\* credential, never with an absent one.
C18_SocketCarriesSessionToken ==
  step.socket.any => step.socket.cookie # None

\* C19: a login request answered 401 starts no authentication and sends
\* nothing: the 401 goes to the caller of _authenticate, which rejects.
C19_Login401NeverNests ==
  Failed(Http401) /\ step.login =>
    /\ ~step.auth
    /\ ~step.sent.any
    /\ calls[step.call].status = "rejected"
    /\ step.result = Http401

\* C20: the promise of a startWebsocketListener call whose socket reported
\* an error or closed has settled: it does not stay pending once its
\* connection is over.
C20_ListenerSettlesWhenSocketEnds ==
  \A c \in Calls :
    calls[c].kind = "ws" /\ calls[c].sock \in {"errored", "closed"} =>
      calls[c].status # "pending"

====
